---- MODULE Spec2Model ----
(***************************************************************************)
(* Model of tile_downloader.py: TileDownloader.lat_lon_to_tile,            *)
(* download_tile and download_area, the ThreadPoolExecutor that runs the   *)
(* tasks, and the __main__ KeyboardInterrupt handler; and of server.py:    *)
(* CustomHTTPRequestHandler on top of SimpleHTTPRequestHandler.            *)
(*                                                                         *)
(* Spec is the downloader, TileMathSpec applies the pure functions to      *)
(* drawn arguments, ProgressSpec runs long task lists against a           *)
(* deterministic provider, FairSpec is Spec with its scheduling            *)
(* assumptions, ServerSpec is the HTTP server.                             *)
(*                                                                         *)
(* Latitudes and longitudes are whole degrees.  Strings of the source that *)
(* are written in Cyrillic are transliterated ("Propushchen", "da", "d").  *)
(***************************************************************************)
EXTENDS Integers, Sequences, FiniteSets, TLC

VARIABLES
    store,        \* the tile files on disk: path -> content
    dirs,         \* the tile directories on disk: <<source, z, x>>
    runNo,        \* number of download_area calls started so far
    pc,           \* position of the main thread
    call,         \* arguments of the current (or last) download_area call
    tasks,        \* download_area: tasks (see TaskList)
    total_tiles,  \* download_area: total_tiles
    response,     \* download_area: response (answer to the confirmation)
    submitted,    \* number of futures created by executor.submit
    taken,        \* number of work items the pool's threads have dequeued
    running,      \* task index -> position inside download_tile
    result,       \* task index -> what its future holds once it is done
    collected,    \* task indexes as_completed has yielded to the main thread
    downloaded,   \* download_area: downloaded
    failed,       \* download_area: failed
    skipped,      \* download_area: skipped
    progress_log, \* the progress lines printed by this run
    pending,      \* exception travelling up through the main thread
    requests,     \* url -> number of GETs issued by this run
    slept,        \* task indexes whose pacing sleep has been started
    net_failed,   \* task indexes whose GET raised a RequestException
    exitKind,     \* how the last call ended
    store0,       \* the files on disk when the current run started
    dirs0,        \* the directories on disk when the current run started
    geo_in,       \* the arguments of the last pure-function application
    geo_out,      \* what that application returned
    www,          \* server.py: the paths that exist under DIRECTORY
    http_request, \* server.py: the request being handled
    http_response \* server.py: what the handler has sent for it

\* the variables the downloader leaves alone
aux == <<geo_in, geo_out, www, http_request, http_response>>

\* the variables of the downloader
downloader == <<store, dirs, runNo, pc, call, tasks, total_tiles, response,
                submitted, taken, running, result, collected, downloaded,
                failed, skipped, progress_log, pending, requests, slept,
                net_failed, exitKind, store0, dirs0>>

vars == <<store, dirs, runNo, pc, call, tasks, total_tiles, response,
          submitted, taken, running, result, collected, downloaded, failed,
          skipped, progress_log, pending, requests, slept, net_failed,
          exitKind, store0, dirs0, geo_in, geo_out, www, http_request,
          http_response>>

----------------------------------------------------------------------------
(* Bounds of the model *)

\* download_area calls explored one after the other on the same store; the
\* calls of one behaviour repeat the same arguments
MaxRuns == 2
\* largest max_workers argument explored
MaxWorkers == 2
\* longest task list that is submitted in full
MaxTasks == 3
\* futures submitted of a task list longer than MaxTasks
MaxPrefix == 2

----------------------------------------------------------------------------
(* Program constants *)

\* "if total_tiles > 1000"
LargeJobThreshold == 1000
\* "progress % 10 == 0"
ProgressEvery == 10

\* TILE_SOURCES: source -> <<host, order of the coordinates in the path>>
TILE_SOURCES ==
    [terrain   |-> <<"tile.opentopomap.org", "zxy">>,
     satellite |-> <<"server.arcgisonline.com", "zyx">>,
     osm       |-> <<"tile.openstreetmap.org", "zxy">>]

\* the answers download_area takes as a yes: ['yes', 'y', 'да', 'д']
YesAnswers == {"yes", "y", "da", "d"}

----------------------------------------------------------------------------
(* Inputs *)

\* source_type arguments: two known sources and an unknown one
SourceArgs == {"terrain", "satellite", "bogus"}

\* (lat_min, lon_min, lat_max, lon_max, zoom_min, zoom_max): 2, 3 and 0 tiles
AreaArgs ==
    { [lat_min |-> 50,  lon_min |-> 86,   lat_max |-> 51, lon_max |-> 87,
       zoom_min |-> 0, zoom_max |-> 1],
      [lat_min |-> -10, lon_min |-> 10,   lat_max |-> 10, lon_max |-> 20,
       zoom_min |-> 0, zoom_max |-> 1],
      [lat_min |-> 10,  lon_min |-> 20,   lat_max |-> -10, lon_max |-> 10,
       zoom_min |-> 1, zoom_max |-> 1] }

\* areas of 32 x 32 = 1024 and of 20 x 50 = 1000 tiles, asked for from one
\* source only
LargeAreaArgs ==
    { [lat_min |-> -85, lon_min |-> -180, lat_max |-> 85, lon_max |-> 179,
       zoom_min |-> 5, zoom_max |-> 5],
      [lat_min |-> -80, lon_min |-> -180, lat_max |-> 80, lon_max |-> -70,
       zoom_min |-> 6, zoom_max |-> 6] }
LargeSourceArgs == {"terrain"}
LargeWorkerArgs == {1}

\* max_workers arguments: one thread, and the largest pool explored
WorkerArgs == {1, MaxWorkers}

\* delay arguments, in tenths of a second (main passes 0.5)
DelayArgs == {5}

\* what the user types at "Продолжить? (yes/no): "
ResponseArgs == {"yes", "Y", "da", "no", ""}

\* what session.get followed by raise_for_status ends in
NetOutcomes == {"ok", "ConnectionError", "Timeout", "HTTPError"}

\* what open(tile_path, 'wb') followed by f.write ends in
WriteOutcomes == {"ok", "open_failed", "write_failed"}

----------------------------------------------------------------------------
(* Pure functions *)

\* int(): truncation towards zero of a / b, b > 0
IntDiv(a, b) == IF a >= 0 THEN a \div b ELSE -((-a) \div b)

Pow2(z) == 2 ^ z

\* (1 - asinh(tan(radians(lat))) / pi) / 2, in millionths, truncated
MercatorMicro(lat) ==
    CASE lat = -85 -> 998362
      [] lat = -84 -> 969300
      [] lat = -80 -> 887740
      [] lat = -60 -> 709600
      [] lat = -10 -> 527919
      [] lat = 0   -> 500000
      [] lat = 10  -> 472080
      [] lat = 50  -> 339144
      [] lat = 51  -> 334777
      [] lat = 60  -> 290399
      [] lat = 80  -> 112259
      [] lat = 84  -> 30699
      [] lat = 85  -> 1637

lat_lon_to_tile(lat, lon, zoom) ==
    LET n == Pow2(zoom)
        x == IntDiv((lon + 180) * n, 360)
        y == IntDiv(MercatorMicro(lat) * n, 1000000)
    IN  <<x, y>>

\* str.lower() on the answers of ResponseArgs
Lower(s) == IF s = "Y" THEN "y" ELSE s

\* the file extension chosen in download_tile
Ext(source_type) == IF source_type = "satellite" THEN ".jpg" ELSE ".png"

\* tile_dir of download_tile
TileDir(t) == <<t.source, t.z, t.x>>

\* a tile_dir that leaves out the zoom level
TilePathWithoutZoom(t) == <<t.source, 0, t.x, t.y, Ext(t.source)>>

\* tile_path of download_tile
TilePath(t) == <<t.source, t.z, t.x, t.y, Ext(t.source)>>

\* TILE_SOURCES[source_type].format(z=z, x=x, y=y)
Url(t) ==
    LET tpl == TILE_SOURCES[t.source]
    IN  IF tpl[2] = "zyx" THEN <<tpl[1], t.z, t.y, t.x>>
                          ELSE <<tpl[1], t.z, t.x, t.y>>

\* tile_path.exists() answering "no" whatever is on disk
tile_path_exists_never(p, files) == FALSE

\* the existence check made on "{y}.png" whatever the source's extension
tile_path_exists_png(p, files) ==
    <<p[1], p[2], p[3], p[4], ".png">> \in DOMAIN files

\* tile_path.exists()
tile_path_exists(p, files) == p \in DOMAIN files

\* lines 106-107: the corner tiles of the rectangle at one zoom level
ZoomGrid(c, zoom) ==
    LET sw == lat_lon_to_tile(c.lat_min, c.lon_min, zoom)
        ne == lat_lon_to_tile(c.lat_max, c.lon_max, zoom)
    IN  [z |-> zoom, x_min |-> sw[1], y_max |-> sw[2],
         x_max |-> ne[1], y_min |-> ne[2]]

\* len(range(x_min, x_max + 1))
GridWidth(g) == IF g.x_max >= g.x_min THEN g.x_max - g.x_min + 1 ELSE 0

\* range(y_min, y_max): the last row left out
GridHeightExclusive(g) == IF g.y_max > g.y_min THEN g.y_max - g.y_min ELSE 0

\* len(range(y_min, y_max + 1))
GridHeight(g) == IF g.y_max >= g.y_min THEN g.y_max - g.y_min + 1 ELSE 0

\* number of tasks lines 109-112 append for one zoom level
GridSize(g) == GridWidth(g) * GridHeight(g)

\* the k-th task lines 109-112 append for one zoom level (x outer, y inner)
GridTask(ts, g, k) ==
    [source |-> ts.source, z |-> g.z,
     x |-> g.x_min + ((k - 1) \div GridHeight(g)),
     y |-> g.y_min + ((k - 1) % GridHeight(g)),
     delay |-> ts.delay]

\* the task list built by download_area's three nested loops, kept as the
\* loop ranges of each zoom level: the list is the concatenation, over the
\* zoom levels in order, of GridTask(ts, g, 1), ..., GridTask(ts, g, GridSize(g))
TaskList(c) ==
    [source |-> c.source_type, delay |-> c.delay,
     grids |-> [j \in 1..(c.zoom_max - c.zoom_min + 1) |->
                   ZoomGrid(c, c.zoom_min + j - 1)]]

\* len(tasks), counted from zoom level j on
RECURSIVE CountFrom(_, _)
CountFrom(ts, j) ==
    IF j > Len(ts.grids) THEN 0
    ELSE GridSize(ts.grids[j]) + CountFrom(ts, j + 1)

\* the k-th element of the list, looked for from zoom level j on
RECURSIVE TaskFrom(_, _, _)
TaskFrom(ts, j, k) ==
    IF k <= GridSize(ts.grids[j]) THEN GridTask(ts, ts.grids[j], k)
    ELSE TaskFrom(ts, j + 1, k - GridSize(ts.grids[j]))

\* the task list written out as a sequence
EnumerateTasks(c) ==
    [i \in 1..CountFrom(TaskList(c), 1) |-> TaskFrom(TaskList(c), 1, i)]

\* "if total_tiles > 1000"
NeedsConfirmation(n) == n > LargeJobThreshold

\* the confirmation taking everything but a "no" as a yes
AcceptedUnlessNo(r) == Lower(r) # "no"

\* "response.lower() not in [...]" negated
Accepted(r) == Lower(r) \in YesAnswers

\* an except clause that catches nothing
CaughtNothing(exc) == FALSE

\* "except requests.RequestException": the exceptions download_tile catches
Caught(exc) == exc \in {"ConnectionError", "Timeout", "HTTPError"}

\* the three messages download_tile returns
SkippedResult(t) ==
    [kind |-> "returned", success |-> TRUE,
     text |-> "Propushchen", reason |-> "", tile |-> TilePath(t)]
DownloadedResult(t) ==
    [kind |-> "returned", success |-> TRUE,
     text |-> "Zagruzhen", reason |-> "", tile |-> TilePath(t)]
\* the except clause returning True instead of False
FailedResultAsSuccess(t, e) ==
    [kind |-> "returned", success |-> TRUE,
     text |-> "Oshibka pri zagruzke", reason |-> "", tile |-> TilePath(t)]

\* (the text of the caught exception, appended to the message, is left out)
FailedResult(t, e) ==
    [kind |-> "returned", success |-> FALSE,
     text |-> "Oshibka pri zagruzke", reason |-> "", tile |-> TilePath(t)]
\* an exception stored in the future
RaisedResult(t, e) ==
    [kind |-> "raised", success |-> FALSE,
     text |-> "", reason |-> e, tile |-> TilePath(t)]

\* '"Пропущен" in message'
MessageHas(word, r) == r.text = word \/ r.tile[1] = word \/ r.reason = word

\* download_area without the "skipped += 1" branch
ClassifyDropsSkipped(r) ==
    IF r.success
    THEN IF MessageHas("Propushchen", r) THEN "none" ELSE "downloaded"
    ELSE "failed"

\* download_area testing the message for the wrong word
ClassifyWrongWord(r) ==
    IF r.success
    THEN IF MessageHas("Skipped", r) THEN "skipped" ELSE "downloaded"
    ELSE "failed"

\* download_area not looking at the success flag
ClassifyIgnoresSuccess(r) ==
    IF MessageHas("Propushchen", r) THEN "skipped" ELSE "downloaded"

\* the counter download_area adds one to for a returned (success, message)
Classify(r) ==
    IF r.success
    THEN IF MessageHas("Propushchen", r) THEN "skipped" ELSE "downloaded"
    ELSE "failed"

\* a progress test without the "or progress == total_tiles" half
ShowsProgressOnTensOnly(progress, n) == progress % ProgressEvery = 0

\* "if progress % 10 == 0 or progress == total_tiles"
ShowsProgress(progress, n) == progress % ProgressEvery = 0 \/ progress = n

\* the state of the pool after the main thread has left submission
AfterSubmit(n, k) == IF k = n THEN "collect" ELSE "submit"

----------------------------------------------------------------------------
(* Initial state: a fresh output directory, no call made yet *)

NoTasks == [source |-> "", delay |-> 0, grids |-> <<>>]

NoCall == [lat_min |-> 0, lon_min |-> 0, lat_max |-> 0, lon_max |-> 0,
           zoom_min |-> 0, zoom_max |-> 0, source_type |-> "",
           max_workers |-> 0, delay |-> 0]

NoArgs == [op |-> "none"]

NoValue == [done |-> FALSE]

NoRequest == [method |-> "none"]

NoResponse == [status |-> 0]

DownloaderInit ==
    /\ store = <<>>
    /\ dirs = {}
    /\ runNo = 0
    /\ pc = "idle"
    /\ call = NoCall
    /\ tasks = NoTasks
    /\ total_tiles = 0
    /\ response = ""
    /\ submitted = 0
    /\ taken = 0
    /\ running = <<>>
    /\ result = <<>>
    /\ collected = {}
    /\ downloaded = 0
    /\ failed = 0
    /\ skipped = 0
    /\ progress_log = <<>>
    /\ pending = "none"
    /\ requests = <<>>
    /\ slept = {}
    /\ net_failed = {}
    /\ exitKind = "none"
    /\ store0 = <<>>
    /\ dirs0 = {}

\* server.py before it is started
ServerInit ==
    /\ www = <<>>
    /\ http_request = NoRequest
    /\ http_response = NoResponse

Init ==
    /\ DownloaderInit
    /\ ServerInit
    /\ geo_in = NoArgs
    /\ geo_out = NoValue

----------------------------------------------------------------------------
(* Helpers on the state *)

\* the i-th element of tasks in the current run
Task(i) == TaskFrom(tasks, 1, i)

\* len(tasks) of the current run
NumTasks == CountFrom(tasks, 1)

\* f with the key k set to v
Put(f, k, v) == [j \in DOMAIN f \cup {k} |-> IF j = k THEN v ELSE f[j]]

\* f without the key k
Drop(f, k) == [j \in DOMAIN f \ {k} |-> f[j]]

\* number of GETs this run has issued for url u
GetCount(u) == IF u \in DOMAIN requests THEN requests[u] ELSE 0

\* response.content of a successful GET made by run r
Body(r) == [kind |-> "full", run |-> r]

\* what is left in the file when f.write fails after open() created it
Partial(r) == [kind |-> "partial", run |-> r]

CallOf(a, s, w, d) ==
    [lat_min |-> a.lat_min, lon_min |-> a.lon_min,
     lat_max |-> a.lat_max, lon_max |-> a.lon_max,
     zoom_min |-> a.zoom_min, zoom_max |-> a.zoom_max,
     source_type |-> s, max_workers |-> w, delay |-> d]

\* the download_area calls explored
Calls ==
    { CallOf(a, s, w, d) :
        a \in AreaArgs, s \in SourceArgs, w \in WorkerArgs, d \in DelayArgs }
    \cup
    { CallOf(a, s, w, d) :
        a \in LargeAreaArgs, s \in LargeSourceArgs, w \in LargeWorkerArgs,
        d \in DelayArgs }

----------------------------------------------------------------------------
(* download_area, up to the creation of the pool *)

\* lines 101-116 and 123-126: enumerate the tasks, size check, zero counters
StartRun(c) ==
    /\ pc = "idle"
    /\ runNo < MaxRuns
    /\ runNo > 0 => c = call
    /\ LET ts == TaskList(c)
           n == CountFrom(ts, 1)
       IN  /\ tasks' = ts
           /\ total_tiles' = n
           /\ pc' = IF NeedsConfirmation(n) THEN "confirm"
                                            ELSE AfterSubmit(n, 0)
    /\ runNo' = runNo + 1
    /\ call' = c
    /\ response' = ""
    /\ submitted' = 0
    /\ taken' = 0
    /\ running' = <<>>
    /\ result' = <<>>
    /\ collected' = {}
    /\ downloaded' = 0
    /\ failed' = 0
    /\ skipped' = 0
    /\ progress_log' = <<>>
    /\ pending' = "none"
    /\ requests' = <<>>
    /\ slept' = {}
    /\ net_failed' = {}
    /\ exitKind' = "none"
    /\ store0' = store
    /\ dirs0' = dirs
    /\ UNCHANGED aux
    /\ UNCHANGED <<store, dirs>>

\* lines 117-121: the answer to input("Продолжить? (yes/no): ")
Confirm(r) ==
    /\ pc = "confirm"
    /\ response' = r
    /\ IF Accepted(r)
       THEN /\ pc' = AfterSubmit(total_tiles, 0)
            /\ UNCHANGED exitKind
       ELSE /\ pc' = "idle"
            /\ exitKind' = "declined"
    /\ UNCHANGED aux
    /\ UNCHANGED <<store, dirs, runNo, call, tasks, total_tiles, submitted,
                   taken, running, result, collected, downloaded, failed,
                   skipped, progress_log, pending, requests, slept, net_failed,
                   store0, dirs0>>

\* KeyboardInterrupt raised inside input(): nothing to unwind but __main__
InterruptAtConfirm ==
    /\ pc = "confirm"
    /\ pc' = "idle"
    /\ pending' = "KeyboardInterrupt"
    /\ exitKind' = "interrupt"
    /\ UNCHANGED aux
    /\ UNCHANGED <<store, dirs, runNo, call, tasks, total_tiles, response,
                   submitted, taken, running, result, collected, downloaded,
                   failed, skipped, progress_log, requests, slept, net_failed,
                   store0, dirs0>>

\* line 129: one executor.submit of the list comprehension; a task list
\* longer than longest is submitted up to MaxPrefix futures only
SubmitOne(longest) ==
    /\ pc = "submit"
    /\ submitted < total_tiles
    /\ total_tiles <= longest \/ submitted < MaxPrefix
    /\ submitted' = submitted + 1
    /\ pc' = AfterSubmit(total_tiles, submitted + 1)
    /\ UNCHANGED aux
    /\ UNCHANGED <<store, dirs, runNo, call, tasks, total_tiles, response,
                   taken, running, result, collected, downloaded, failed,
                   skipped, progress_log, pending, requests, slept, net_failed, exitKind,
                   store0, dirs0>>

Submit == SubmitOne(MaxTasks)

\* KeyboardInterrupt in the main thread inside the with block: the
\* executor's __exit__ runs shutdown(wait=True)
Interrupt ==
    /\ pc \in {"submit", "collect"}
    /\ pending' = "KeyboardInterrupt"
    /\ pc' = "draining"
    /\ UNCHANGED aux
    /\ UNCHANGED <<store, dirs, runNo, call, tasks, total_tiles, response,
                   submitted, taken, running, result, collected, downloaded,
                   failed, skipped, progress_log, requests, slept, net_failed, exitKind,
                   store0, dirs0>>

----------------------------------------------------------------------------
(* download_tile, run by a thread of the pool *)

\* what leaves the try block of download_tile when exc is raised inside it
TryResult(t, exc) ==
    IF Caught(exc) THEN FailedResult(t, exc) ELSE RaisedResult(t, exc)

\* a variant that goes back to the pause and asks again after a failed request
AfterGetRetries(o) == IF o = "ok" THEN "write" ELSE "sleep"

\* lines 65-75: where download_tile goes after session.get and
\* raise_for_status: on to the write at line 69, or out of the function
\* through the except clause at line 74 (no loop around the request)
AfterGet(o) == IF o = "ok" THEN "write" ELSE "return"

\* a pool that starts a thread for every queued work item
PoolHasRoomAlways(n, max_workers) == TRUE

\* a pool that runs one work item at a time whatever max_workers is
PoolHasRoomForOne(n, max_workers) == n < 1

\* line 128: ThreadPoolExecutor(max_workers=max_workers) runs a work item
\* only on one of at most max_workers threads
PoolHasRoom(n, max_workers) == n < max_workers

\* the next work item of the queue can be taken by a thread of the pool
CanTake ==
    /\ pc \in {"submit", "collect", "draining"}
    /\ taken < submitted
    /\ PoolHasRoom(Cardinality(DOMAIN running), call.max_workers)

\* the future of task i is done and holds r
Finish(i, r) ==
    /\ running' = Drop(running, i)
    /\ result' = Put(result, i, r)

\* a thread dequeues the next work item; lines 46-47: tile_dir.mkdir succeeds
WorkerStart ==
    /\ CanTake
    /\ taken' = taken + 1
    /\ dirs' = dirs \cup {TileDir(Task(taken + 1))}
    /\ running' = Put(running, taken + 1, "check")
    /\ UNCHANGED aux
    /\ UNCHANGED <<store, runNo, pc, call, tasks, total_tiles, response,
                   submitted, result, collected, downloaded, failed, skipped,
                   progress_log, pending, requests, slept, net_failed, exitKind,
                   store0, dirs0>>

\* a thread dequeues the next work item; lines 46-47: tile_dir.mkdir raises
\* OSError (a directory that is already there never makes it fail)
WorkerMkdirFails ==
    /\ CanTake
    /\ TileDir(Task(taken + 1)) \notin dirs
    /\ taken' = taken + 1
    /\ result' = Put(result, taken + 1,
                     RaisedResult(Task(taken + 1), "OSError"))
    /\ UNCHANGED aux
    /\ UNCHANGED <<store, dirs, runNo, pc, call, tasks, total_tiles, response,
                   submitted, running, collected, downloaded, failed, skipped,
                   progress_log, pending, requests, slept, net_failed, exitKind,
                   store0, dirs0>>

\* lines 50-58: the existence check, then the lookup of the URL template
WorkerCheck(i) ==
    /\ i \in DOMAIN running
    /\ running[i] = "check"
    /\ IF tile_path_exists(TilePath(Task(i)), store)
       THEN Finish(i, SkippedResult(Task(i)))
       ELSE IF Task(i).source \notin DOMAIN TILE_SOURCES
            THEN Finish(i, RaisedResult(Task(i), "KeyError"))
            ELSE /\ running' = Put(running, i, "sleep")
                 /\ UNCHANGED result
    /\ UNCHANGED aux
    /\ UNCHANGED <<store, dirs, runNo, pc, call, tasks, total_tiles, response,
                   submitted, taken, collected, downloaded, failed, skipped,
                   progress_log, pending, requests, slept, net_failed, exitKind,
                   store0, dirs0>>

\* line 62: time.sleep(delay)
WorkerSleep(i) ==
    /\ i \in DOMAIN running
    /\ running[i] = "sleep"
    /\ slept' = slept \cup {i}
    /\ running' = Put(running, i, "get")
    /\ UNCHANGED net_failed
    /\ UNCHANGED aux
    /\ UNCHANGED <<store, dirs, runNo, pc, call, tasks, total_tiles, response,
                   submitted, taken, result, collected, downloaded, failed,
                   skipped, progress_log, pending, requests, exitKind,
                   store0, dirs0>>

\* lines 65-66: session.get(url, timeout=10) and raise_for_status()
WorkerGet(i, o) ==
    /\ i \in DOMAIN running
    /\ running[i] = "get"
    /\ requests' = Put(requests, Url(Task(i)), GetCount(Url(Task(i))) + 1)
    /\ IF AfterGet(o) = "return"
       THEN Finish(i, TryResult(Task(i), o))
       ELSE /\ running' = Put(running, i, AfterGet(o))
            /\ UNCHANGED result
    /\ net_failed' = IF o = "ok" THEN net_failed ELSE net_failed \cup {i}
    /\ UNCHANGED aux
    /\ UNCHANGED <<store, dirs, runNo, pc, call, tasks, total_tiles, response,
                   submitted, taken, collected, downloaded, failed, skipped,
                   progress_log, pending, slept, exitKind, store0, dirs0>>

\* lines 69-72: open(tile_path, 'wb'), f.write(response.content), return
WorkerWrite(i, o) ==
    /\ i \in DOMAIN running
    /\ running[i] = "write"
    /\ CASE o = "ok" ->
              /\ store' = Put(store, TilePath(Task(i)), Body(runNo))
              /\ Finish(i, DownloadedResult(Task(i)))
         [] o = "open_failed" ->
              /\ UNCHANGED store
              /\ Finish(i, TryResult(Task(i), "OSError"))
         [] o = "write_failed" ->
              /\ store' = Put(store, TilePath(Task(i)), Partial(runNo))
              /\ Finish(i, TryResult(Task(i), "OSError"))
    /\ UNCHANGED aux
    /\ UNCHANGED <<dirs, runNo, pc, call, tasks, total_tiles, response,
                   submitted, taken, collected, downloaded, failed, skipped,
                   progress_log, pending, requests, slept, net_failed, exitKind,
                   store0, dirs0>>

----------------------------------------------------------------------------
(* download_area, the as_completed loop and the end of the call *)

\* lines 131-147: one iteration of "for future in as_completed(futures)"
Collect(i) ==
    /\ pc = "collect"
    /\ i \in DOMAIN result
    /\ i \notin collected
    /\ collected' = collected \cup {i}
    /\ IF result[i].kind = "raised"
       THEN \* future.result() re-raises; the with block is left
            /\ pending' = result[i].reason
            /\ pc' = "draining"
            /\ UNCHANGED <<downloaded, failed, skipped, progress_log>>
       ELSE LET k == Classify(result[i])
                d == IF k = "downloaded" THEN downloaded + 1 ELSE downloaded
                s == IF k = "skipped" THEN skipped + 1 ELSE skipped
                f == IF k = "failed" THEN failed + 1 ELSE failed
                progress == d + f + s
            IN  /\ downloaded' = d
                /\ skipped' = s
                /\ failed' = f
                /\ progress_log' =
                      IF ShowsProgress(progress, total_tiles)
                      THEN Append(progress_log,
                                  [progress |-> progress, downloaded |-> d,
                                   skipped |-> s, failed |-> f])
                      ELSE progress_log
                /\ UNCHANGED <<pending, pc>>
    /\ UNCHANGED aux
    /\ UNCHANGED <<store, dirs, runNo, call, tasks, total_tiles, response,
                   submitted, taken, running, result, requests, slept, net_failed,
                   exitKind, store0, dirs0>>

\* lines 149-154: every future was yielded; the summary is printed
Summary ==
    /\ pc = "collect"
    /\ collected = 1..total_tiles
    /\ pc' = "idle"
    /\ exitKind' = "summary"
    /\ UNCHANGED aux
    /\ UNCHANGED <<store, dirs, runNo, call, tasks, total_tiles, response,
                   submitted, taken, running, result, collected, downloaded,
                   failed, skipped, progress_log, pending, requests, slept, net_failed,
                   store0, dirs0>>

\* shutdown(wait=True) has joined the threads: the exception leaves
\* download_area; lines 264-269 catch KeyboardInterrupt only
Propagate ==
    /\ pc = "draining"
    /\ taken = submitted
    /\ DOMAIN running = {}
    /\ pc' = "idle"
    /\ exitKind' = IF pending = "KeyboardInterrupt" THEN "interrupt"
                                                    ELSE "error"
    /\ UNCHANGED aux
    /\ UNCHANGED <<store, dirs, runNo, call, tasks, total_tiles, response,
                   submitted, taken, running, result, collected, downloaded,
                   failed, skipped, progress_log, pending, requests, slept, net_failed,
                   store0, dirs0>>

----------------------------------------------------------------------------
(* The program *)

Next ==
    \/ \E c \in Calls : StartRun(c)
    \/ \E r \in ResponseArgs : Confirm(r)
    \/ InterruptAtConfirm
    \/ Submit
    \/ Interrupt
    \/ WorkerStart
    \/ WorkerMkdirFails
    \/ \E i \in DOMAIN running : WorkerCheck(i)
    \/ \E i \in DOMAIN running : WorkerSleep(i)
    \/ \E i \in DOMAIN running, o \in NetOutcomes : WorkerGet(i, o)
    \/ \E i \in DOMAIN running, o \in WriteOutcomes : WorkerWrite(i, o)
    \/ \E i \in DOMAIN result : Collect(i)
    \/ Summary
    \/ Propagate

Spec == Init /\ [][Next]_vars

----------------------------------------------------------------------------
(* Vocabulary of the properties *)

TaskIds == 1..NumTasks

\* the tasks a thread of the pool has taken from the queue
StartedIds == 1..taken

\* the run called download_tile for task i and the call has ended
Done(i) == i \in DOMAIN result

IsSkipped(i) == Done(i) /\ result[i].kind = "returned" /\ result[i].success
                        /\ result[i].text = "Propushchen"
IsDownloaded(i) == Done(i) /\ result[i].kind = "returned" /\ result[i].success
                           /\ result[i].text = "Zagruzhen"
IsFailed(i) == Done(i) /\ result[i].kind = "returned" /\ ~result[i].success
IsRaised(i) == Done(i) /\ result[i].kind = "raised"

\* the tile of task i had a file when this run started
ExistedAtStart(i) == TilePath(Task(i)) \in DOMAIN store0

\* this run has issued a GET for the tile of task i
Fetched(i) ==
    /\ Task(i).source \in DOMAIN TILE_SOURCES
    /\ Url(Task(i)) \in DOMAIN requests

\* download_area has printed its final summary
AtSummary == exitKind = "summary"

\* the answers of ResponseArgs that lines 118-119 take as a yes
YesResponses == {"yes", "Y", "da"}

----------------------------------------------------------------------------
(* C1 *)

\* C1: in every run that reaches its final summary, downloaded + skipped +
\* failed equals the number of enumerated tasks, and each counter is the
\* number of tasks with that outcome, so every task is counted exactly once
C1_CountsAddUp ==
    AtSummary =>
        /\ downloaded + skipped + failed = NumTasks
        /\ total_tiles = NumTasks
        /\ \A i \in TaskIds : IsDownloaded(i) \/ IsSkipped(i) \/ IsFailed(i)
        /\ downloaded = Cardinality({i \in TaskIds : IsDownloaded(i)})
        /\ skipped = Cardinality({i \in TaskIds : IsSkipped(i)})
        /\ failed = Cardinality({i \in TaskIds : IsFailed(i)})

\* a summary of a run in which all three outcomes happened
C1_Witness ==
    AtSummary /\ downloaded > 0 /\ skipped > 0 /\ failed > 0

----------------------------------------------------------------------------
(* C2 *)

\* C2: in a re-run of the same call, a GET is issued only for tiles that had
\* no file when the re-run started, at most once each; when the re-run
\* reaches its summary the tiles fetched are exactly the tiles that had no
\* file, and every tile that had one is counted as skipped
C2_Resumable ==
    runNo >= 2 =>
        /\ \A p \in DOMAIN store0 :
              \A i \in StartedIds : TilePath(Task(i)) = p => ~Fetched(i)
        /\ \A u \in DOMAIN requests :
              /\ requests[u] = 1
              /\ \E i \in StartedIds :
                    Url(Task(i)) = u /\ ~ExistedAtStart(i)
        /\ AtSummary =>
              /\ \A i \in TaskIds : Fetched(i) <=> ~ExistedAtStart(i)
              /\ \A i \in TaskIds : ExistedAtStart(i) => IsSkipped(i)
              /\ skipped = Cardinality({i \in TaskIds : ExistedAtStart(i)})

\* a finished re-run that found some tiles stored and fetched the others
C2_Witness ==
    /\ runNo >= 2
    /\ AtSummary
    /\ \E i \in TaskIds : ExistedAtStart(i) /\ IsSkipped(i)
    /\ \E i \in TaskIds : ~ExistedAtStart(i) /\ Fetched(i)

----------------------------------------------------------------------------
(* C3 *)

\* C3: a task whose file exists never sleeps and never issues a GET, its
\* call of download_tile can only end as Skipped, and the file keeps the
\* content it had
C3_SkipIsFree ==
    /\ \A p \in DOMAIN store0 :
          /\ p \in DOMAIN store
          /\ store[p] = store0[p]
          /\ \A i \in StartedIds :
                TilePath(Task(i)) = p =>
                    /\ i \notin slept
                    /\ ~Fetched(i)
                    /\ i \in DOMAIN running => running[i] = "check"
                    /\ Done(i) => IsSkipped(i)
    /\ slept \subseteq StartedIds

\* a task that found its file, written by the run before, and was skipped
C3_Witness ==
    \E i \in TaskIds :
        /\ ExistedAtStart(i)
        /\ IsSkipped(i)
        /\ store0[TilePath(Task(i))].run < runNo

----------------------------------------------------------------------------
(* C4 *)

\* C4: when every enumerated tile has a file at the start of a run, the run
\* makes no network call, and its summary is downloaded = 0,
\* skipped = total, failed = 0
C4_Idempotent ==
    (\A i \in TaskIds : ExistedAtStart(i)) =>
        /\ requests = <<>>
        /\ AtSummary => /\ downloaded = 0
                        /\ skipped = total_tiles
                        /\ skipped = NumTasks
                        /\ failed = 0

\* the summary of a run over tiles that were all there
C4_Witness ==
    /\ AtSummary
    /\ NumTasks > 1
    /\ \A i \in TaskIds : ExistedAtStart(i)
    /\ skipped = NumTasks

----------------------------------------------------------------------------
(* C5 *)

\* C5: a task whose GET ended in a connection error, a timeout or a
\* non-success status ends as Failed, is counted in failed once collected
\* and in no other counter, and has no file at its destination path
C5_FailedLeavesNoFile ==
    /\ \A i \in net_failed :
          /\ IsFailed(i)
          /\ TilePath(Task(i)) \notin DOMAIN store
    /\ failed = Cardinality(net_failed \cap collected)
    /\ downloaded + skipped =
          Cardinality({i \in collected : IsDownloaded(i) \/ IsSkipped(i)})
    /\ \A i \in collected : IsDownloaded(i) \/ IsSkipped(i) => i \notin net_failed

\* a collected task whose GET failed, counted in failed next to a download
C5_Witness ==
    /\ \E i \in net_failed : i \in collected
    /\ failed = 1
    /\ downloaded = 1

----------------------------------------------------------------------------
(* C6 *)

\* C6: a failed GET never aborts the batch: it ends the task as Failed, the
\* only exceptions that leave the as_completed loop are an interrupt and an
\* exception of a task whose GET did not fail, and a run that meets none of
\* these ends in the summary with an outcome for every enumerated task
C6_FailuresDoNotAbort ==
    /\ \A i \in net_failed : IsFailed(i)
    /\ pending \notin {"none", "KeyboardInterrupt"} =>
          \E i \in collected : IsRaised(i) /\ i \notin net_failed
    /\ (/\ pc = "idle"
        /\ runNo > 0
        /\ pending = "none"
        /\ exitKind # "declined") =>
          /\ AtSummary
          /\ \A i \in TaskIds : Done(i) /\ i \in collected
          /\ downloaded + skipped + failed = NumTasks

\* a summary of a run in which a GET failed and another tile was downloaded
C6_Witness ==
    /\ AtSummary
    /\ net_failed # {}
    /\ \E i \in TaskIds : IsDownloaded(i) /\ i \notin net_failed
    /\ failed = Cardinality(net_failed)

----------------------------------------------------------------------------
(* C7 *)

\* C7: a filesystem error on one tile (mkdir, open or write raising OSError)
\* is recorded as a Failed outcome of that tile and does not abort the run
C7_FilesystemErrorIsFailed ==
    /\ \A i \in DOMAIN result : result[i].reason = "OSError" => IsFailed(i)
    /\ pending # "OSError"

----------------------------------------------------------------------------
(* C8 *)

\* C8: when more than 1000 tasks are enumerated, nothing is submitted and no
\* worker starts before the confirmation is answered with a yes, and a run
\* that was declined has written no file or directory and made no GET
C8_ConfirmBeforeWork ==
    /\ pc = "confirm" => NumTasks > LargeJobThreshold
    /\ (NumTasks > LargeJobThreshold /\ response \notin YesResponses) =>
          /\ submitted = 0
          /\ taken = 0
          /\ DOMAIN running = {}
          /\ DOMAIN result = {}
          /\ requests = <<>>
          /\ slept = {}
          /\ store = store0
          /\ dirs = dirs0
          /\ pc \in {"confirm", "idle"}
    /\ exitKind = "declined" =>
          /\ NumTasks > LargeJobThreshold
          /\ response \notin YesResponses

\* a declined large job, on a store that an earlier run had written to
C8_Witness ==
    /\ exitKind = "declined"
    /\ NumTasks > LargeJobThreshold
    /\ store0 # <<>>

----------------------------------------------------------------------------
(* C9 *)

\* C9: a call with a source outside TILE_SOURCES is rejected before any task
\* is enumerated: no task is built, nothing is created on disk, no worker runs
C9_InvalidSourceRejected ==
    (runNo > 0 /\ call.source_type \notin DOMAIN TILE_SOURCES) =>
        /\ NumTasks = 0
        /\ submitted = 0
        /\ taken = 0
        /\ dirs = dirs0
        /\ store = store0

----------------------------------------------------------------------------
(* C10 *)

\* C10: once the main thread has received KeyboardInterrupt, no queued task
\* is started any more, and the call ends without a summary
C10_InterruptStopsQueue ==
    [][(pending = "KeyboardInterrupt" /\ pc = "draining") =>
          /\ taken' = taken
          /\ exitKind' # "summary"]_vars

\* ---------------------------------------------------------------------
\* C11: each task is executed exactly once per run by exactly one worker
\* and is never retried.  Every task taken from the queue is at exactly one
\* place (one worker's hands, or finished with its outcome), at most one
\* GET has been issued for the tile of any task, every task has its outcome
\* when the summary is printed, and an outcome once set
\* stays as it is for the rest of the run: a task whose outcome is Failed
\* is not run again and issues no further GET.
SameRun == runNo' = runNo

C11_ExecutedOnce ==
    [][/\ (DOMAIN running)' \cap (DOMAIN result)' = {}
       /\ (DOMAIN running)' \cup (DOMAIN result)' = 1..taken'
       /\ \A u \in DOMAIN requests' : requests'[u] = 1
       /\ AtSummary' => (DOMAIN result)' = 1..total_tiles'
       /\ SameRun =>
            \A i \in DOMAIN result :
                /\ i \in DOMAIN result'
                /\ result'[i] = result[i]
                /\ i \notin DOMAIN running'
                /\ IsFailed(i) =>
                     GetCount(Url(Task(i)))' = GetCount(Url(Task(i)))]_vars

\* the run is over with its summary, one task has failed after its one
\* request and another one has been downloaded
C11_Witness ==
    /\ AtSummary
    /\ \E i \in StartedIds : IsFailed(i) /\ requests[Url(Task(i))] = 1
    /\ \E i \in StartedIds : IsDownloaded(i)

\* ---------------------------------------------------------------------
\* C12: bounded parallelism.  At every moment of a run the number of tasks
\* being executed (checking, sleeping, requesting or writing) is at most
\* max_workers, although all tasks are submitted up front.
C12_BoundedParallelism ==
    Cardinality(DOMAIN running) <= call.max_workers

\* every task is submitted, two workers are busy, and a third task waits
\* in the queue
C12_Witness ==
    /\ pc = "collect"
    /\ submitted = total_tiles
    /\ call.max_workers = MaxWorkers
    /\ Cardinality(DOMAIN running) = call.max_workers
    /\ taken < submitted

\* ---------------------------------------------------------------------
\* C18: no failed or interrupted write leaves an empty or partial file
\* that a run counts as Skipped (already present): the file of every tile
\* a run has skipped holds the complete body of a successful response.
C18_FilesAreComplete ==
    \A i \in DOMAIN result :
        IsSkipped(i) => store[TilePath(Task(i))].kind = "full"

\* ---------------------------------------------------------------------
\* C20: in a single run with no other writer, a task is counted as
\* downloaded only after its file has been written with the body this run
\* received; at the final summary downloaded is the number of tile files
\* that exist now and did not exist when the run started, and skipped is
\* the number of enumerated tiles that existed at the start.
C20_CountsMatchStore ==
    /\ \A i \in collected :
          IsDownloaded(i) =>
             /\ tile_path_exists(TilePath(Task(i)), store)
             /\ store[TilePath(Task(i))] = Body(runNo)
             /\ ~ExistedAtStart(i)
    /\ downloaded <= Cardinality(DOMAIN store \ DOMAIN store0)
    /\ AtSummary =>
          /\ downloaded = Cardinality(DOMAIN store \ DOMAIN store0)
          /\ skipped = Cardinality({i \in TaskIds : ExistedAtStart(i)})

\* a second run over a store that held one of its tiles ends with one tile
\* skipped, one downloaded and one failed
C20_Witness ==
    /\ AtSummary
    /\ runNo = 2
    /\ downloaded = 1
    /\ skipped = 1
    /\ failed = 1

----------------------------------------------------------------------------
(* TileMathSpec: lat_lon_to_tile and the task enumeration of download_area *)
(* applied to drawn arguments                                              *)

\* largest zoom lat_lon_to_tile is applied to
MaxZoom == 6
\* largest zoom of the small areas enumerated
MaxEnumZoom == 2

\* the latitudes of MercatorMicro
LatArgs == {-85, -84, -80, -60, -10, 0, 10, 50, 51, 60, 80, 84, 85}

\* longitudes, the two ends of the documented range included
LonArgs == {-180, -179, -70, 0, 10, 20, 86, 87, 179, 180}

\* corners and zoom ranges of the small areas enumerated
EnumLatArgs == {-60, 0, 60}
EnumLonArgs == {-180, 0, 179}
EnumAreaArgs ==
    [lat_min : EnumLatArgs, lon_min : EnumLonArgs,
     lat_max : EnumLatArgs, lon_max : EnumLonArgs,
     zoom_min : 0..MaxEnumZoom, zoom_max : 0..MaxEnumZoom]

EnumCalls ==
    Calls \cup { CallOf(a, s, 1, 5) :
                    a \in EnumAreaArgs, s \in {"terrain", "satellite"} }

\* the arguments drawn for lat_lon_to_tile and for download_area
TileArgs ==
    [op : {"lat_lon_to_tile"}, lat : LatArgs, lon : LonArgs,
     zoom : 0..MaxZoom]
EnumArgs == [op : {"download_area"}, call : EnumCalls]

TileMathInit ==
    /\ DownloaderInit
    /\ ServerInit
    /\ geo_in \in TileArgs \cup EnumArgs
    /\ geo_out = NoValue

\* lines 34-40: the application of lat_lon_to_tile
ToTile ==
    /\ geo_in.op = "lat_lon_to_tile"
    /\ ~geo_out.done
    /\ geo_out' = [done |-> TRUE,
                   value |-> lat_lon_to_tile(geo_in.lat, geo_in.lon,
                                             geo_in.zoom)]
    /\ UNCHANGED <<downloader, geo_in, www, http_request, http_response>>

\* lines 101-112: the three nested loops that fill tasks
BuildTasks ==
    /\ geo_in.op = "download_area"
    /\ ~geo_out.done
    /\ geo_out' = [done |-> TRUE, value |-> EnumerateTasks(geo_in.call)]
    /\ UNCHANGED <<downloader, geo_in, www, http_request, http_response>>

TileMathNext == ToTile \/ BuildTasks

TileMathSpec == TileMathInit /\ [][TileMathNext]_vars

\* ---------------------------------------------------------------------
\* C14: for every latitude in (-85, 85), every longitude in [-180, 180]
\* and every zoom >= 0, lat_lon_to_tile returns x and y both in
\* [0, 2^zoom).
C14_TileInRange ==
    (/\ geo_in.op = "lat_lon_to_tile"
     /\ geo_out.done
     /\ geo_in.lat > -85 /\ geo_in.lat < 85
     /\ geo_in.lon >= -180 /\ geo_in.lon <= 180
     /\ geo_in.zoom >= 0)
    => /\ geo_out.value[1] >= 0 /\ geo_out.value[1] < Pow2(geo_in.zoom)
       /\ geo_out.value[2] >= 0 /\ geo_out.value[2] < Pow2(geo_in.zoom)

\* the corner tiles as the claim names them, at one zoom level
SouthWestTile(c, z) == lat_lon_to_tile(c.lat_min, c.lon_min, z)
NorthEastTile(c, z) == lat_lon_to_tile(c.lat_max, c.lon_max, z)

\* sum over the zoom levels from z to zoom_max of
\* (xMax - xMin + 1) * (yMax - yMin + 1)
RECURSIVE RectangleSum(_, _)
RectangleSum(c, z) ==
    IF z > c.zoom_max THEN 0
    ELSE (NorthEastTile(c, z)[1] - SouthWestTile(c, z)[1] + 1)
           * (SouthWestTile(c, z)[2] - NorthEastTile(c, z)[2] + 1)
         + RectangleSum(c, z + 1)

\* (lat_min, lon_min) is the southwest and (lat_max, lon_max) the northeast
\* corner of the area
CornersInOrder(c) == c.lat_min <= c.lat_max /\ c.lon_min <= c.lon_max

\* ---------------------------------------------------------------------
\* C17: for each zoom in [zoom_min, zoom_max], download_area builds exactly
\* one task for every integer (x, y) with xMin <= x <= xMax and
\* yMin <= y <= yMax, where (xMin, yMax) is the tile of the southwest
\* corner and (xMax, yMin) the tile of the northeast corner; every task
\* lies in the rectangle of its zoom, and the total is the sum over the
\* zooms of (xMax - xMin + 1) * (yMax - yMin + 1).
C17_ExactRectangle ==
    (geo_in.op = "download_area" /\ geo_out.done
        /\ CornersInOrder(geo_in.call)) =>
        LET c == geo_in.call
        IN  /\ \A z \in c.zoom_min..c.zoom_max :
                 \A x \in SouthWestTile(c, z)[1]..NorthEastTile(c, z)[1],
                    y \in NorthEastTile(c, z)[2]..SouthWestTile(c, z)[2] :
                     Cardinality({ i \in DOMAIN geo_out.value :
                                     /\ geo_out.value[i].z = z
                                     /\ geo_out.value[i].x = x
                                     /\ geo_out.value[i].y = y }) = 1
            /\ \A i \in DOMAIN geo_out.value :
                 /\ geo_out.value[i].source = c.source_type
                 /\ geo_out.value[i].z \in c.zoom_min..c.zoom_max
                 /\ geo_out.value[i].x \in SouthWestTile(c, geo_out.value[i].z)[1]
                                       ..NorthEastTile(c, geo_out.value[i].z)[1]
                 /\ geo_out.value[i].y \in NorthEastTile(c, geo_out.value[i].z)[2]
                                       ..SouthWestTile(c, geo_out.value[i].z)[2]
            /\ Len(geo_out.value) = RectangleSum(c, c.zoom_min)

\* an area whose rectangle is more than one tile wide and high at the last
\* of several zoom levels has been enumerated
C17_Witness ==
    /\ geo_in.op = "download_area"
    /\ geo_out.done
    /\ CornersInOrder(geo_in.call)
    /\ geo_in.call.zoom_min < geo_in.call.zoom_max
    /\ NorthEastTile(geo_in.call, geo_in.call.zoom_max)[1]
         > SouthWestTile(geo_in.call, geo_in.call.zoom_max)[1]
    /\ SouthWestTile(geo_in.call, geo_in.call.zoom_max)[2]
         > NorthEastTile(geo_in.call, geo_in.call.zoom_max)[2]
    /\ Len(geo_out.value) > ProgressEvery

\* ---------------------------------------------------------------------
\* C19: within one download_area run no two tasks have the same
\* destination path (nor the same directory and file name), so no two
\* workers of the run check, fetch or write the same tile file.
C19_DistinctPaths ==
    (geo_in.op = "download_area" /\ geo_out.done) =>
        \A i, j \in DOMAIN geo_out.value :
            i < j => TilePath(geo_out.value[i]) # TilePath(geo_out.value[j])

\* a task list over several zoom levels in which the same (x, y) occurs at
\* two zoom levels
C19_Witness ==
    /\ geo_in.op = "download_area"
    /\ geo_out.done
    /\ \E i, j \in DOMAIN geo_out.value :
          /\ geo_out.value[i].z # geo_out.value[j].z
          /\ geo_out.value[i].x = geo_out.value[j].x
          /\ geo_out.value[i].y = geo_out.value[j].y

----------------------------------------------------------------------------
(* ProgressSpec: task lists of 9 to 21 tiles run to their summary, against *)
(* a provider whose answer depends on the tile and on the run only         *)

\* longest task list submitted in full
MaxProgressTasks == 21
\* tasks taken by the pool and not yet yielded to the main thread
MaxAhead == 2

\* areas of 9, 10, 11 and 21 tiles
ProgressAreaArgs ==
    { [lat_min |-> -60, lon_min |-> 0,   lat_max |-> -10, lon_max |-> 10,
       zoom_min |-> 0, zoom_max |-> 4],
      [lat_min |-> -60, lon_min |-> -70, lat_max |-> -10, lon_max |-> 0,
       zoom_min |-> 1, zoom_max |-> 3],
      [lat_min |-> -60, lon_min |-> -70, lat_max |-> -10, lon_max |-> 0,
       zoom_min |-> 0, zoom_max |-> 3],
      [lat_min |-> -60, lon_min |-> 0,   lat_max |-> -10, lon_max |-> 86,
       zoom_min |-> 2, zoom_max |-> 4] }

ProgressCalls ==
    { CallOf(a, "terrain", w, d) :
        a \in ProgressAreaArgs, w \in WorkerArgs, d \in DelayArgs }

\* what session.get and raise_for_status end in for a provider that lacks
\* two tiles out of three during the first run, one out of three during the
\* second, and none afterwards
ProviderAnswer(t, run) ==
    IF (t.x + t.y) % 3 < 3 - run THEN "HTTPError" ELSE "ok"

ProgressSubmit == SubmitOne(MaxProgressTasks)

ProgressWorkerStart ==
    /\ taken - Cardinality(collected) < MaxAhead
    /\ WorkerStart

ProgressNext ==
    \/ \E c \in ProgressCalls : StartRun(c)
    \/ ProgressSubmit
    \/ ProgressWorkerStart
    \/ \E i \in DOMAIN running : WorkerCheck(i)
    \/ \E i \in DOMAIN running : WorkerSleep(i)
    \/ \E i \in DOMAIN running : WorkerGet(i, ProviderAnswer(Task(i), runNo))
    \/ \E i \in DOMAIN running : WorkerWrite(i, "ok")
    \/ \E i \in DOMAIN result : Collect(i)
    \/ Summary

ProgressSpec == Init /\ [][ProgressNext]_vars

\* number of futures the as_completed loop has counted so far
Completed == downloaded + failed + skipped

\* ---------------------------------------------------------------------
\* C13: a progress notification carrying the cumulative downloaded,
\* skipped and failed counts is emitted whenever the number of completed
\* tasks is a multiple of 10 and on the completion of the last task: the
\* k-th notification is the one of completion 10 * k (or of the last
\* completion), its counts sum to the completions so far, fewer than 10
\* completions have passed since the last one, and at the summary the last
\* notification carries the final counts, which sum to the total.
C13_ProgressReported ==
    LET n == Len(progress_log)
        lastOdd == IF Completed = total_tiles
                      /\ Completed % ProgressEvery # 0 THEN 1 ELSE 0
    IN  /\ n = (Completed \div ProgressEvery) + lastOdd
        /\ \A k \in 1..n :
              /\ progress_log[k].progress =
                    progress_log[k].downloaded + progress_log[k].skipped
                       + progress_log[k].failed
              /\ \/ progress_log[k].progress = ProgressEvery * k
                 \/ k = n /\ progress_log[k].progress = total_tiles
        /\ Completed - (IF n = 0 THEN 0 ELSE progress_log[n].progress)
              < ProgressEvery
        /\ (AtSummary /\ total_tiles > 0) =>
              /\ n > 0
              /\ progress_log[n] = [progress |-> total_tiles,
                                    downloaded |-> downloaded,
                                    skipped |-> skipped, failed |-> failed]

\* a run of 21 tiles has reached its summary with three notifications, the
\* last one for a count that is not a multiple of 10, and tiles of all
\* three outcomes
C13_Witness ==
    /\ AtSummary
    /\ total_tiles = 21
    /\ Len(progress_log) = 3
    /\ downloaded > 0 /\ skipped > 0 /\ failed > 0

----------------------------------------------------------------------------
(* FairSpec: one download_area call under the scheduling its threads get.  *)
(* A step of a pool thread other than the GET (dequeue, mkdir, existence   *)
(* check, pause, write) and a step of the main thread inside the with      *)
(* block (submit, take the next finished future, print the summary, leave  *)
(* after the threads are joined) is taken once it stays possible.  Nothing *)
(* is assumed of session.get: a GET may stay without an answer.            *)

LocalStep ==
    \/ WorkerStart
    \/ WorkerMkdirFails
    \/ \E i \in DOMAIN running : WorkerCheck(i)
    \/ \E i \in DOMAIN running : WorkerSleep(i)
    \/ \E i \in DOMAIN running, o \in WriteOutcomes : WorkerWrite(i, o)

MainStep ==
    \/ Submit
    \/ \E i \in DOMAIN result : Collect(i)
    \/ Summary
    \/ Propagate

\* the first download_area call of the process
FirstRun(c) ==
    /\ runNo = 0
    /\ StartRun(c)

FairNext ==
    \/ \E c \in Calls : FirstRun(c)
    \/ \E r \in ResponseArgs : Confirm(r)
    \/ InterruptAtConfirm
    \/ Interrupt
    \/ \E i \in DOMAIN running, o \in NetOutcomes : WorkerGet(i, o)
    \/ LocalStep
    \/ MainStep

FairSpec ==
    Init /\ [][FairNext]_vars /\ WF_vars(LocalStep) /\ WF_vars(MainStep)

\* the tasks that are inside session.get
InGet == { i \in DOMAIN running : running[i] = "get" }

\* the main thread is in the as_completed loop
Collecting == pc = "collect"

\* ---------------------------------------------------------------------
\* C15: a blocked network call in one worker does not stall the others.
\* It never stays the case that work is queued while a thread of the pool
\* is outside a GET (again and again the queue is empty or every thread is
\* inside a GET); it never stays the case that a task is being executed
\* outside a GET (again and again every task in execution is inside its
\* GET); and the as_completed loop never stays without an outstanding GET:
\* with every GET answered every task gets its outcome and the loop is
\* left, by the summary unless an exception or an interrupt ended it.
C15_BlockedGetDoesNotStall ==
    /\ []<>(taken = submitted \/ Cardinality(InGet) >= call.max_workers)
    /\ []<>(DOMAIN running = InGet)
    /\ []<>(~Collecting \/ InGet # {})
    /\ [][(Collecting /\ ~Collecting') =>
            (AtSummary' \/ pending' # "none")]_vars

\* with two threads, a task is still inside its GET while a task submitted
\* after it already has its outcome
C15_Witness ==
    /\ call.max_workers >= 2
    /\ \E i \in InGet : \E j \in DOMAIN result : i < j

----------------------------------------------------------------------------
(* ServerSpec: server.py.  A request path is its segments, whether it ends *)
(* in a slash, and its query string; the tree under DIRECTORY is a         *)
(* function from segment sequences to "dir" or "file".                     *)

\* line 52: empty_png
EMPTY_PNG == "transparent 1x1 png"

\* lines 29-32: the headers end_headers adds
CorsHeaders ==
    { <<"Access-Control-Allow-Origin", "*">>,
      <<"Access-Control-Allow-Methods", "GET, OPTIONS">>,
      <<"Access-Control-Allow-Headers", "Content-Type">>,
      <<"Cache-Control", "no-store, no-cache, must-revalidate">> }

\* lines 66-68: the directories create_directories makes, under DIRECTORY
\* (the empty path), which holds server.py itself
TileLayers == {"terrain", "satellite", "views", "slopes"}
CreatedDirectories ==
    {<<>>, <<"tiles">>} \cup { <<"tiles", l>> : l \in TileLayers }

\* the tile the downloader may have stored, and the page of the site
TileFile == <<"tiles", "terrain", "1", "1", "0.png">>
MissingTile == <<"tiles", "terrain", "1", "1", "1.png">>
ServerFiles == { TileFile, <<"index.html">>, <<"tiles", "terrain", "index.html">> }

Methods == {"GET", "HEAD", "OPTIONS"}

PathOf(segs, slash, query) == [segs |-> segs, slash |-> slash, query |-> query]

RequestPaths ==
    { PathOf(TileFile, FALSE, ""),
      PathOf(TileFile, FALSE, "v=2"),
      PathOf(TileFile, TRUE, ""),
      PathOf(MissingTile, FALSE, ""),
      PathOf(MissingTile, FALSE, "v=2"),
      PathOf(<<"tiles", "views", "3", "4", "5.png">>, FALSE, ""),
      PathOf(<<"tiles", "terrain">>, TRUE, ""),
      PathOf(<<"tiles", "terrain">>, FALSE, ""),
      PathOf(<<"tiles", "views">>, TRUE, ""),
      PathOf(<<"tiles">>, FALSE, ""),
      PathOf(<<"tiles", "nothing">>, TRUE, ""),
      PathOf(<<>>, TRUE, ""),
      PathOf(<<"index.html">>, FALSE, ""),
      PathOf(<<"missing.html">>, FALSE, ""),
      PathOf(<<"missing.html">>, FALSE, "next=/tiles/") }

\* the proper prefixes of a path
Parents(segs) == { SubSeq(segs, 1, k) : k \in 1..(Len(segs) - 1) }

\* line 44: '/tiles/' in self.path, on the raw path (query included)
HasTilesSubpath(p) ==
    \/ \E k \in 1..Len(p.segs) :
          p.segs[k] = "tiles" /\ (k < Len(p.segs) \/ p.slash)
    \/ p.query = "next=/tiles/"

\* lines 45-46: (DIRECTORY / self.path.lstrip('/')).exists().  The query
\* is part of the file name looked for; pathlib drops a trailing slash
tile_exists(p, files) == p.query = "" /\ p.segs \in DOMAIN files

\* lines 27-33: end_headers
end_headers(headers) == headers \cup CorsHeaders

\* SimpleHTTPRequestHandler.send_error: the status, its headers, an
\* HTML page
send_error(status) ==
    [status |-> status,
     headers |-> end_headers({<<"Content-Type", "text/html;charset=utf-8">>}),
     body |-> "error page"]

\* SimpleHTTPRequestHandler.send_head followed by the copy of the file,
\* as super().do_GET() runs them: translate_path leaves the query out
send_head(p, files) ==
    IF p.segs \in DOMAIN files /\ files[p.segs] = "dir"
    THEN IF ~p.slash
         THEN [status |-> 301,
               headers |-> end_headers({<<"Location", "with slash">>}),
               body |-> "none"]
         ELSE IF Append(p.segs, "index.html") \in DOMAIN files
              THEN [status |-> 200,
                    headers |-> end_headers({<<"Content-type", "text/html">>}),
                    body |-> Append(p.segs, "index.html")]
              ELSE [status |-> 200,
                    headers |-> end_headers({<<"Content-type", "text/html">>}),
                    body |-> "directory listing"]
    ELSE IF p.slash \/ p.segs \notin DOMAIN files
         THEN send_error(404)
         ELSE [status |-> 200,
               headers |-> end_headers({<<"Content-type", "guessed">>}),
               body |-> p.segs]

\* lines 35-37: do_OPTIONS
do_OPTIONS ==
    [status |-> 200, headers |-> end_headers({}), body |-> "none"]

\* lines 39-57: do_GET
do_GET(p, files) ==
    IF HasTilesSubpath(p) /\ ~tile_exists(p, files)
    THEN [status |-> 200,
          headers |-> end_headers({<<"Content-type", "image/png">>}),
          body |-> EMPTY_PNG]
    ELSE send_head(p, files)

\* SimpleHTTPRequestHandler.do_HEAD: send_head without the body
do_HEAD(p, files) == [send_head(p, files) EXCEPT !.body = "none"]

\* BaseHTTPRequestHandler.handle_one_request: the do_ method of the verb
Respond(method, p, files) ==
    CASE method = "GET" -> do_GET(p, files)
      [] method = "HEAD" -> do_HEAD(p, files)
      [] method = "OPTIONS" -> do_OPTIONS

\* lines 101-104: main up to create_directories
ServerStart ==
    /\ <<"tiles">> \notin DOMAIN www
    /\ www' = [p \in DOMAIN www \cup CreatedDirectories |->
                 IF p \in DOMAIN www THEN www[p] ELSE "dir"]
    /\ UNCHANGED <<downloader, geo_in, geo_out, http_request, http_response>>

\* a file appears under DIRECTORY (a tile written by the downloader with
\* its directories, or a page of the site)
PutFile(f) ==
    /\ <<"tiles">> \in DOMAIN www
    /\ f \notin DOMAIN www
    /\ www' = [p \in DOMAIN www \cup Parents(f) \cup {f} |->
                 IF p = f THEN "file"
                 ELSE IF p \in DOMAIN www THEN www[p] ELSE "dir"]
    /\ UNCHANGED <<downloader, geo_in, geo_out, http_request, http_response>>

\* line 113: serve_forever handles one request
HandleRequest(method, p) ==
    /\ <<"tiles">> \in DOMAIN www
    /\ http_request' = [method |-> method, path |-> p]
    /\ http_response' = Respond(method, p, www)
    /\ UNCHANGED <<downloader, geo_in, geo_out, www>>

ServerNext ==
    \/ ServerStart
    \/ \E f \in ServerFiles : PutFile(f)
    \/ \E method \in Methods, p \in RequestPaths : HandleRequest(method, p)

ServerSpec == Init /\ [][ServerNext]_vars

\* the request names something below the tiles directory
TilesRequest(p) == \E k \in 1..(Len(p.segs) - 1) : p.segs[k] = "tiles"

\* the request path resolves to something stored under DIRECTORY: a
\* directory, or a file when the path has no trailing slash (the way
\* translate_path and send_head resolve it; the query is not looked at)
Resolves(p) ==
    /\ p.segs \in DOMAIN www
    /\ www[p.segs] = "dir" \/ ~p.slash

HasHeader(name) == \E h \in http_response.headers : h[1] = name

\* ---------------------------------------------------------------------
\* C16: every GET whose path contains the tiles sub-path and does not
\* resolve to an existing file is answered with HTTP 200 and the 1x1
\* transparent placeholder image, never a 404; every response carries the
\* permissive CORS headers and the no-cache header; OPTIONS is answered
\* with 200 and no body.
C16_ServerContract ==
    http_request.method # "none" =>
        /\ <<"Access-Control-Allow-Origin", "*">> \in http_response.headers
        /\ HasHeader("Access-Control-Allow-Methods")
        /\ HasHeader("Access-Control-Allow-Headers")
        /\ <<"Cache-Control", "no-store, no-cache, must-revalidate">>
              \in http_response.headers
        /\ http_request.method = "OPTIONS"
           => /\ http_response.status = 200
              /\ http_response.body = "none"
        /\ (/\ http_request.method = "GET"
            /\ TilesRequest(http_request.path)
            /\ ~Resolves(http_request.path))
           => /\ http_response.status = 200
              /\ http_response.body = EMPTY_PNG
              /\ <<"Content-type", "image/png">> \in http_response.headers

====
